---- MODULE Spec2Model ----
(***************************************************************************)
(* A model of dl (src/main.py): entry-point scan, recursive-descent parser *)
(* with inline binding and type checking, single-pass code generator and   *)
(* the driver that writes the assembly file and runs the toolchain.        *)
(*                                                                         *)
(* Python values are modelled as follows.  A Token is a record             *)
(* [typ, val, line].  None is the string "None"; the token returned by     *)
(* peek() at the end of the sequence is NoneTok.  A CompileError is a      *)
(* record holding the fields its message string is formatted from, in the  *)
(* order the f-string prints them; an emitted assembly line is a record    *)
(* [text, args] holding the f-string's template and the values it          *)
(* interpolates.  The parser cursor pos is 0-based as in the source.       *)
(***************************************************************************)
EXTENDS Integers, Sequences, FiniteSets, TLC

VARIABLES tokens, pc, pos, sym, stmts, ast, out, offset, gi, file, cmds,
          stdout, raised, exit

vars == <<tokens, pc, pos, sym, stmts, ast, out, offset, gi, file, cmds,
          stdout, raised, exit>>

----------------------------------------------------------------------------
(* Bounds of the input space *)

MaxStmts == 3

Names == {"x", "y"}

RefNames == {"x"}

Nums == {42}

FilePath == "prog.dl"

----------------------------------------------------------------------------
(* Program constants *)

TYPE_TOK == {"i32", "i8", "i16", "i64"}

KEY_TOK == {"main", "return"}

None == "None"

NoneTok == [typ |-> None, val |-> None, line |-> 0]

NoExc == [exc |-> "none"]

NoFile == <<[text |-> "<no file>", args |-> <<>>]>>

EmptySym == [n \in {} |-> None]

Token(typ, val, line) == [typ |-> typ, val |-> val, line |-> line]

----------------------------------------------------------------------------
(* Input programs: token sequences as tokenize produces them, one         *)
(* statement per source line, optionally cut short or damaged.            *)

Exprs == [k : {"num"}, n : Nums, v : {""}] \cup [k : {"var"}, n : {0}, v : RefNames]

(* Every declaration NAME ':' TYPE '=' expr ';' and every 'return' expr ';' *)
(* over the names, types and expressions above; only the names of         *)
(* RefNames are declared with a variable as initializer.                  *)
Stmts == {d \in [kind : {"decl"}, name : Names, typ : TYPE_TOK, e : Exprs] :
             d.e.k = "var" => d.name \in RefNames}
         \cup [kind : {"ret"}, name : {""}, typ : {""}, e : Exprs]

Programs == UNION {[1..n -> Stmts] : n \in 0..MaxStmts}

ExprTok(e, line) ==
    IF e.k = "num" THEN Token("NUM", e.n, line) ELSE Token("VAR", e.v, line)

StmtToks(d, line) ==
    IF d.kind = "decl"
    THEN <<Token("VAR", d.name, line), Token("SYM", ":", line),
           Token("TYPE", d.typ, line), Token("SYM", "=", line),
           ExprTok(d.e, line), Token("SYM", ";", line)>>
    ELSE <<Token("KEY", "return", line), ExprTok(d.e, line),
           Token("SYM", ";", line)>>

HeaderToks ==
    <<Token("KEY", "main", 1), Token("SYM", ":", 1), Token("SYM", ":", 1),
      Token("TYPE", "i32", 1), Token("SYM", "{", 1)>>

RECURSIVE BodyToks(_, _)
BodyToks(prog, i) ==
    IF i > Len(prog) THEN <<Token("SYM", "}", Len(prog) + 2)>>
    ELSE StmtToks(prog[i], i + 1) \o BodyToks(prog, i + 1)

ProgramTokens(prog) == HeaderToks \o BodyToks(prog, 1)

JunkTok(line) == Token("SYM", "+", line)

(* The damaged variants of a program's token sequence: cut after `at`     *)
(* tokens (the file ends early), cut there and followed by a token no     *)
(* rule of the grammar accepts, or (for the empty body) that token        *)
(* inserted before token at+1.  A cut before the last statement is the    *)
(* cut of a shorter program, so cuts are taken in the last statement (or  *)
(* in the head, when there is none) and before the closing brace, of the  *)
(* programs shorter than MaxStmts.                                        *)
CutFrom(prog) ==
    IF Len(prog) = 0 THEN 0
    ELSE Len(ProgramTokens(prog)) - Len(StmtToks(prog[Len(prog)], 0))

MutationsOf(prog) ==
    {[kind |-> "none", at |-> 0]}
    \cup (IF Len(prog) < MaxStmts
          THEN [kind : {"truncate", "junk"},
                at : CutFrom(prog)..(Len(ProgramTokens(prog)) - 1)]
          ELSE {})
    \cup (IF Len(prog) = 0
          THEN [kind : {"insert"}, at : 0..(Len(ProgramTokens(prog)) - 1)]
          ELSE {})

Mutate(toks, m) ==
    CASE m.kind = "none" -> toks
      [] m.kind = "truncate" -> SubSeq(toks, 1, m.at)
      [] m.kind = "junk" ->
            SubSeq(toks, 1, m.at) \o <<JunkTok(toks[m.at + 1].line)>>
      [] m.kind = "insert" ->
            SubSeq(toks, 1, m.at) \o <<JunkTok(toks[m.at + 1].line)>>
            \o SubSeq(toks, m.at + 1, Len(toks))

----------------------------------------------------------------------------
(* find_entry *)

(* mutant: only the first token is examined *)
extract_token_first_only(toks, typ, val) ==
    {i \in 1..Len(toks) : i = 1 /\ toks[i].typ = typ /\ toks[i].val = val}

extract_token(toks, typ, val) ==
    {i \in 1..Len(toks) : toks[i].typ = typ /\ toks[i].val = val}

find_entry(toks, file_path) ==
    IF extract_token(toks, "KEY", "main") = {}
    THEN [exc |-> "CompileError", path |-> file_path,
          msg |-> <<"missing entry point main">>]
    ELSE NoExc

----------------------------------------------------------------------------
(* Parser *)

ParserError(msg, tok) ==
    [exc |-> "CompileError", path |-> FilePath,
     line |-> IF tok.typ = None THEN 0 ELSE tok.line, msg |-> msg]

AttributeError(what) == [exc |-> "AttributeError", msg |-> <<what>>]

Fail(p, e) == [ok |-> FALSE, pos |-> p, err |-> e]

peek(p) == IF p < Len(tokens) THEN tokens[p + 1] ELSE NoneTok

ValNe(tok, val) == tok.typ = "NUM" \/ tok.val # val

consume(p, typ, val) ==
    LET tok == peek(p) IN
    IF tok.typ = None
    THEN Fail(p, ParserError(<<"unexpected end of file">>, NoneTok))
    ELSE IF typ # None /\ tok.typ # typ
    THEN Fail(p, ParserError(<<"expected", typ, "got", tok.typ>>, tok))
    ELSE IF val # None /\ ValNe(tok, val)
    THEN Fail(p, ParserError(<<"expected '", val, "', got '", tok.val>>, tok))
    ELSE [ok |-> TRUE, pos |-> p + 1, err |-> NoExc, tok |-> tok]

IntLiteral(val) == [node |-> "IntLiteral", val |-> val, typ |-> None]

Variable(name, typ) == [node |-> "Variable", val |-> name, typ |-> typ]

VarDecl(name, typ, expr) ==
    [node |-> "VarDecl", name |-> name, typ |-> typ, expr |-> expr]

Return(expr) == [node |-> "Return", name |-> None, typ |-> None, expr |-> expr]

parse_expr(p, s) ==
    LET tok == peek(p) IN
    IF tok.typ = None
    THEN Fail(p, AttributeError("'NoneType' object has no attribute 'typ'"))
    ELSE IF tok.typ = "NUM"
    THEN [ok |-> TRUE, pos |-> p + 1, err |-> NoExc, expr |-> IntLiteral(tok.val)]
    ELSE IF tok.typ = "VAR"
    THEN IF tok.val \notin DOMAIN s
         THEN Fail(p + 1, ParserError(<<"undeclared variable '", tok.val>>, tok))
         ELSE [ok |-> TRUE, pos |-> p + 1, err |-> NoExc,
               expr |-> Variable(tok.val, s[tok.val])]
    ELSE Fail(p, ParserError(<<"invalid expression">>, tok))

(* mutant: an existing binding is kept (setdefault) *)
Bind_keep_first(s, name, typ) ==
    [n \in DOMAIN s \cup {name} |-> IF n \in DOMAIN s THEN s[n] ELSE typ]

(* self.sym[name.val] = typ.val *)
Bind(s, name, typ) ==
    [n \in DOMAIN s \cup {name} |-> IF n = name THEN typ ELSE s[n]]

(* mutant: the initializer's type is not compared with the declared type *)
decl_check_unchecked(p, s, name, typ, e) ==
    LET expr == IF e.typ = None THEN [e EXCEPT !.typ = typ.val] ELSE e
    IN  [ok |-> TRUE, pos |-> p, err |-> NoExc,
         sym |-> Bind(s, name.val, typ.val),
         stmt |-> VarDecl(name.val, typ.val, expr)]

(* parse_decl after its last consume: stamp, compare, bind *)
decl_check(p, s, name, typ, e) ==
    LET expr == IF e.typ = None THEN [e EXCEPT !.typ = typ.val] ELSE e
    IN  IF expr.typ # typ.val
        THEN Fail(p, ParserError(<<"type mismatch: cannot assign",
                                   expr.typ, "to", typ.val>>, name))
        ELSE [ok |-> TRUE, pos |-> p, err |-> NoExc,
              sym |-> Bind(s, name.val, typ.val),
              stmt |-> VarDecl(name.val, typ.val, expr)]

(* mutant: the returned expression's type is not compared with i32 *)
return_check_unchecked(p, s, tok, e) ==
    LET expr == IF e.typ = None THEN [e EXCEPT !.typ = "i32"] ELSE e
    IN  [ok |-> TRUE, pos |-> p, err |-> NoExc, sym |-> s, stmt |-> Return(expr)]

(* parse_return after its last consume: stamp, compare *)
return_check(p, s, tok, e) ==
    LET expr == IF e.typ = None THEN [e EXCEPT !.typ = "i32"] ELSE e
    IN  IF expr.typ # "i32"
        THEN Fail(p, ParserError(<<"return type", expr.typ, "expected i32">>, tok))
        ELSE [ok |-> TRUE, pos |-> p, err |-> NoExc, sym |-> s,
              stmt |-> Return(expr)]

parse_decl(p, s) ==
    LET name == consume(p, "VAR", None) IN
    IF ~name.ok THEN name ELSE
    LET c1 == consume(name.pos, "SYM", ":") IN
    IF ~c1.ok THEN c1 ELSE
    LET typ == consume(c1.pos, "TYPE", None) IN
    IF ~typ.ok THEN typ ELSE
    LET c2 == consume(typ.pos, "SYM", "=") IN
    IF ~c2.ok THEN c2 ELSE
    LET e == parse_expr(c2.pos, s) IN
    IF ~e.ok THEN e ELSE
    LET c3 == consume(e.pos, "SYM", ";") IN
    IF ~c3.ok THEN c3 ELSE
    decl_check(c3.pos, s, name.tok, typ.tok, e.expr)

parse_return(p, s) ==
    LET tok == consume(p, "KEY", "return") IN
    IF ~tok.ok THEN tok ELSE
    LET e == parse_expr(tok.pos, s) IN
    IF ~e.ok THEN e ELSE
    LET c == consume(e.pos, "SYM", ";") IN
    IF ~c.ok THEN c ELSE
    return_check(c.pos, s, tok.tok, e.expr)

parse_statement(p, s) ==
    LET tok == peek(p) IN
    IF tok.typ = "VAR" THEN parse_decl(p, s)
    ELSE IF tok.typ = "KEY" /\ tok.val = "return" THEN parse_return(p, s)
    ELSE Fail(p, ParserError(<<"invalid statement">>, tok))

(* The five consume calls that open parse_function. *)
parse_function_head(p) ==
    LET a == consume(p, "KEY", "main") IN
    IF ~a.ok THEN a ELSE
    LET b == consume(a.pos, "SYM", ":") IN
    IF ~b.ok THEN b ELSE
    LET c == consume(b.pos, "SYM", ":") IN
    IF ~c.ok THEN c ELSE
    LET d == consume(c.pos, "TYPE", "i32") IN
    IF ~d.ok THEN d ELSE consume(d.pos, "SYM", "{")

Function(body) == [node |-> "Function", body |-> body]

NoAst == [node |-> None, body |-> <<>>]

----------------------------------------------------------------------------
(* CodeGen *)

Line(text, args) == [text |-> text, args |-> args]

StoreText == "        mov DWORD [rbp-{offset}], {vardecl.expr.val}"

ReturnText == "        mov eax, {ret.val}"

TypeWidth(typ) ==
    IF typ = "i8" \/ typ = "u8" THEN 1
    ELSE IF typ = "i16" \/ typ = "u16" THEN 2
    ELSE IF typ = "i32" \/ typ = "u32" THEN 4
    ELSE IF typ = "u64" \/ typ = "i64" THEN 8
    ELSE 1

(* mutant: the base offset is advanced past the slot *)
generate_vardec_advancing(vardecl, selfOffset) ==
    LET off == selfOffset + TypeWidth(vardecl.typ) IN
    IF vardecl.expr.node = "IntLiteral"
    THEN [ok |-> TRUE, lines |-> <<Line(StoreText, <<off, vardecl.expr.val>>)>>,
          offset |-> off, err |-> NoExc]
    ELSE [ok |-> FALSE, lines |-> <<>>, offset |-> selfOffset,
          err |-> AttributeError("'CodeGen' object has no attribute 'line'")]

(* self.offset is read into a local; the attribute itself is not assigned. *)
generate_vardec(vardecl, selfOffset) ==
    LET off == selfOffset + TypeWidth(vardecl.typ) IN
    IF vardecl.expr.node = "IntLiteral"
    THEN [ok |-> TRUE, lines |-> <<Line(StoreText, <<off, vardecl.expr.val>>)>>,
          offset |-> selfOffset, err |-> NoExc]
    ELSE [ok |-> FALSE, lines |-> <<>>, offset |-> selfOffset,
          err |-> AttributeError("'CodeGen' object has no attribute 'line'")]

(* mutant: the literal is stored to the stack instead of moved to eax *)
generate_return_store(retval, selfOffset) ==
    IF retval.expr.node = "IntLiteral"
    THEN [ok |-> TRUE,
          lines |-> <<Line(StoreText, <<selfOffset + 4, retval.expr.val>>)>>,
          offset |-> selfOffset, err |-> NoExc]
    ELSE [ok |-> FALSE, lines |-> <<>>, offset |-> selfOffset,
          err |-> AttributeError("'CodeGen' object has no attribute 'line'")]

generate_return(retval, selfOffset) ==
    IF retval.expr.node = "IntLiteral"
    THEN [ok |-> TRUE, lines |-> <<Line(ReturnText, <<retval.expr.val>>)>>,
          offset |-> selfOffset, err |-> NoExc]
    ELSE [ok |-> FALSE, lines |-> <<>>, offset |-> selfOffset,
          err |-> AttributeError("'CodeGen' object has no attribute 'line'")]

(* generate's dispatch on the node class, for the nodes a Function holds. *)
generate(node, selfOffset) ==
    IF node.node = "VarDecl" THEN generate_vardec(node, selfOffset)
    ELSE generate_return(node, selfOffset)

Prologue ==
    <<Line("format ELF64", <<>>), Line("public main", <<>>),
      Line("section '.text' executable", <<>>), Line("", <<>>),
      Line("main:", <<>>), Line("        push rbp", <<>>),
      Line("        mov rbp, rsp", <<>>)>>

Epilogue == <<Line("        pop rbp", <<>>), Line("        ret\n", <<>>)>>

FasmCmd == <<"fasm", "a.asm", "a.o">>

GccCmd == <<"gcc", "a.o", "-o", "a.out">>

----------------------------------------------------------------------------
(* The driver (__main__): an exception raised by a step ends the run.  A   *)
(* CompileError is caught, printed and turned into exit status 1; any      *)
(* other exception is uncaught: the interpreter prints a traceback on      *)
(* stderr and exits with status 1, and nothing is printed on stdout.       *)

Raise(e) ==
    /\ raised' = e
    /\ stdout' = IF e.exc = "CompileError" THEN Append(stdout, e) ELSE stdout
    /\ exit' = 1
    /\ pc' = "done"

Init ==
    /\ \E prog \in Programs : \E m \in MutationsOf(prog) :
          tokens = Mutate(ProgramTokens(prog), m)
    /\ pc = "find_entry"
    /\ pos = 0
    /\ sym = EmptySym
    /\ stmts = <<>>
    /\ ast = NoAst
    /\ out = <<>>
    /\ offset = 0
    /\ gi = 0
    /\ file = NoFile
    /\ cmds = <<>>
    /\ stdout = <<>>
    /\ raised = NoExc
    /\ exit = -1

(* parse_file up to the construction of the Parser *)
FindEntry ==
    /\ pc = "find_entry"
    /\ LET e == find_entry(tokens, FilePath) IN
       IF e.exc # "none"
       THEN /\ Raise(e)
            /\ UNCHANGED <<tokens, pos, sym, stmts, ast, out, offset, gi, file, cmds>>
       ELSE /\ pc' = "parse_function"
            /\ UNCHANGED <<tokens, pos, sym, stmts, ast, out, offset, gi, file,
                           cmds, stdout, raised, exit>>

(* parse_function, lines 98-102 *)
ParseFunctionHead ==
    /\ pc = "parse_function"
    /\ LET r == parse_function_head(pos) IN
       /\ pos' = r.pos
       /\ IF r.ok
          THEN pc' = "parse_block" /\ UNCHANGED <<stdout, raised, exit>>
          ELSE Raise(r.err)
    /\ UNCHANGED <<tokens, sym, stmts, ast, out, offset, gi, file, cmds>>

(* one evaluation of parse_block's loop condition that does not leave the  *)
(* loop: it either crashes on peek() = None or parses one statement        *)
ParseBlockStep ==
    /\ pc = "parse_block"
    /\ LET tok == peek(pos) IN
       IF tok.typ = None
       THEN /\ Raise(AttributeError("'NoneType' object has no attribute 'val'"))
            /\ UNCHANGED <<pos, sym, stmts>>
       ELSE /\ ValNe(tok, "}")
            /\ LET r == parse_statement(pos, sym) IN
               /\ pos' = r.pos
               /\ IF r.ok
                  THEN /\ sym' = r.sym
                       /\ stmts' = Append(stmts, r.stmt)
                       /\ UNCHANGED <<pc, stdout, raised, exit>>
                  ELSE /\ Raise(r.err)
                       /\ UNCHANGED <<sym, stmts>>
    /\ UNCHANGED <<tokens, ast, out, offset, gi, file, cmds>>

(* the loop ends on '}': parse_function consumes it and returns Function,  *)
(* parse_file returns and __main__ constructs the CodeGen                  *)
ParseFunctionEnd ==
    /\ pc = "parse_block"
    /\ peek(pos).typ # None
    /\ ~ValNe(peek(pos), "}")
    /\ LET r == consume(pos, "SYM", "}") IN
       /\ pos' = r.pos
       /\ IF r.ok
          THEN /\ ast' = Function(stmts)
               /\ pc' = "generate"
               /\ UNCHANGED <<stdout, raised, exit>>
          ELSE Raise(r.err) /\ UNCHANGED ast
    /\ out' = <<>>
    /\ offset' = 0
    /\ UNCHANGED <<tokens, sym, stmts, gi, file, cmds>>

(* generate(ast) -> generate_func, up to the loop over fn.body *)
GenerateFunc ==
    /\ pc = "generate"
    /\ out' = out \o Prologue
    /\ gi' = 1
    /\ pc' = "gen_body"
    /\ UNCHANGED <<tokens, pos, sym, stmts, ast, offset, file, cmds, stdout,
                   raised, exit>>

(* one iteration of "for stmt in fn.body: self.generate(stmt)" *)
GenerateStmt ==
    /\ pc = "gen_body"
    /\ gi <= Len(ast.body)
    /\ LET r == generate(ast.body[gi], offset) IN
       /\ out' = out \o r.lines
       /\ offset' = r.offset
       /\ IF r.ok
          THEN gi' = gi + 1 /\ UNCHANGED <<pc, stdout, raised, exit>>
          ELSE Raise(r.err) /\ UNCHANGED gi
    /\ UNCHANGED <<tokens, pos, sym, stmts, ast, file, cmds>>

(* the loop is over: the epilogue is emitted and generate returns *)
GenerateEpilogue ==
    /\ pc = "gen_body"
    /\ gi > Len(ast.body)
    /\ out' = out \o Epilogue
    /\ pc' = "write_file"
    /\ UNCHANGED <<tokens, pos, sym, stmts, ast, offset, gi, file, cmds,
                   stdout, raised, exit>>

WriteFile ==
    /\ pc = "write_file"
    /\ file' = out
    /\ pc' = "compilation"
    /\ UNCHANGED <<tokens, pos, sym, stmts, ast, out, offset, gi, cmds,
                   stdout, raised, exit>>

Compilation ==
    /\ pc = "compilation"
    /\ cmds' = <<FasmCmd, GccCmd>>
    /\ stdout' = stdout \o <<[exc |-> "none", cmd |-> FasmCmd],
                             [exc |-> "none", cmd |-> GccCmd]>>
    /\ exit' = 0
    /\ pc' = "done"
    /\ UNCHANGED <<tokens, pos, sym, stmts, ast, out, offset, gi, file, raised>>

Next ==
    \/ FindEntry
    \/ ParseFunctionHead
    \/ ParseBlockStep
    \/ ParseFunctionEnd
    \/ GenerateFunc
    \/ GenerateStmt
    \/ GenerateEpilogue
    \/ WriteFile
    \/ Compilation

Spec == Init /\ [][Next]_vars

----------------------------------------------------------------------------
(* Vocabulary of the properties *)

(* The failure kinds of the error taxonomy, read off the message. *)
Kind(e) ==
    IF e.exc # "CompileError" THEN e.exc
    ELSE LET h == e.msg[1] IN
         CASE h = "missing entry point main" -> "MissingEntryPoint"
           [] h = "unexpected end of file" -> "UnexpectedEndOfInput"
           [] h = "type mismatch: cannot assign" -> "TypeMismatch"
           [] h = "undeclared variable '" -> "UndeclaredVariable"
           [] h = "return type" -> "ReturnTypeMismatch"
           [] OTHER -> "UnexpectedToken"

Structured(e) == e.exc = "CompileError" /\ {"path", "line", "msg"} \subseteq DOMAIN e

HasMain == \E i \in 1..Len(tokens) : tokens[i].typ = "KEY" /\ tokens[i].val = "main"

IsSym(tok, s) == tok.typ = "SYM" /\ tok.val = s

ParseOver == pc \notin {"find_entry", "parse_function", "parse_block"}

CompleteDeclAt(p) ==
    /\ p + 6 <= Len(tokens)
    /\ tokens[p + 1].typ = "VAR"
    /\ IsSym(tokens[p + 2], ":")
    /\ tokens[p + 3].typ = "TYPE"
    /\ IsSym(tokens[p + 4], "=")
    /\ tokens[p + 5].typ \in {"NUM", "VAR"}
    /\ IsSym(tokens[p + 6], ";")

CompleteReturnAt(p) ==
    /\ p + 3 <= Len(tokens)
    /\ tokens[p + 1].typ = "KEY" /\ tokens[p + 1].val = "return"
    /\ tokens[p + 2].typ \in {"NUM", "VAR"}
    /\ IsSym(tokens[p + 3], ";")

DeclIdx(body, n) ==
    {i \in 1..Len(body) : body[i].node = "VarDecl" /\ body[i].name = n}

LastIdx(S) == CHOOSE i \in S : \A j \in S : j <= i

(* the declared type of the last declaration of n in body, or None *)
LastType(body, n) ==
    IF DeclIdx(body, n) = {} THEN None ELSE body[LastIdx(DeclIdx(body, n))].typ

VarRefIdx(body) == {i \in 1..Len(body) : body[i].expr.node = "Variable"}

FirstIdx(S) == CHOOSE i \in S : \A j \in S : i <= j

(* the statements whose line has been emitted: line 7+i of out is theirs *)
StoreIdx == {i \in 1..Len(ast.body) : 7 + i <= Len(out) /\ out[7 + i].text = StoreText}

(* bytes written by the store the code emits: its size keyword is DWORD *)
DWORD == 4

StoreBytes(line) == IF line.text = StoreText THEN DWORD ELSE 0

----------------------------------------------------------------------------
(* C1: for a token sequence with a 'main' keyword, a parse that does not   *)
(* return a Function fails with a structured CompileError (path, line,     *)
(* message); when the failure happens at the end of the sequence and is    *)
(* no binding or type error, it is UnexpectedEndOfInput.                   *)
C1_ParseFailsStructured ==
    (HasMain /\ pc = "done" /\ ast.node = None) =>
        /\ Structured(raised)
        /\ (pos = Len(tokens)
            /\ Kind(raised) \notin {"UndeclaredVariable", "TypeMismatch",
                                    "ReturnTypeMismatch"})
           => Kind(raised) = "UnexpectedEndOfInput"

(* C2: when the parsed Function holds a statement whose expression is a    *)
(* variable reference, generation stops at the first of them: a message    *)
(* is printed, the process exits by exit(1), no file is written and no     *)
(* tool is run.                                                            *)
C2_UnsupportedStops ==
    (pc = "done" /\ ast.node = "Function" /\ VarRefIdx(ast.body) # {}) =>
        /\ gi = FirstIdx(VarRefIdx(ast.body))
        /\ raised.exc = "SystemExit"
        /\ Len(stdout) = 1
        /\ exit = 1
        /\ file = NoFile
        /\ cmds = <<>>

(* C3: every CompileError carries path, line and message; the missing      *)
(* entry point carries line 0 and an unexpected token the line of the      *)
(* offending token; the diagnostic is what is printed.                     *)
C3_DiagnosticHasLine ==
    raised.exc = "CompileError" =>
        /\ Structured(raised)
        /\ stdout = <<raised>>
        /\ Kind(raised) = "MissingEntryPoint" => raised.line = 0
        /\ Kind(raised) = "UnexpectedToken" => raised.line = peek(pos).line

(* C4: with no 'main' keyword token the run ends in MissingEntryPoint with *)
(* the cursor at 0, an empty symbol table and nothing generated, written   *)
(* or run; with a 'main' keyword token anywhere, the scan passes.          *)
C4_MissingEntryPoint ==
    /\ (~HasMain /\ pc # "find_entry") =>
          /\ pc = "done"
          /\ Kind(raised) = "MissingEntryPoint"
          /\ exit = 1
          /\ pos = 0
          /\ DOMAIN sym = {}
          /\ ast.node = None
          /\ out = <<>>
          /\ file = NoFile
          /\ cmds = <<>>
    /\ HasMain => Kind(raised) # "MissingEntryPoint"
    /\ (HasMain /\ pc = "done") => (pos > 0 \/ Kind(raised) = "UnexpectedToken")

C4_Witness ==
    /\ ~HasMain
    /\ Len(tokens) > 0
    /\ pc = "done"

(* C5: the generator's base offset is 0 at every point; the slot of every  *)
(* emitted store is the width of its declaration's type, so two            *)
(* declarations of one type store to the same slot.                        *)
C5_BaseOffsetFixed ==
    /\ offset = 0
    /\ \A i \in StoreIdx :
          /\ ast.body[i].node = "VarDecl"
          /\ out[7 + i].args[1] = offset + TypeWidth(ast.body[i].typ)
    /\ \A i, j \in StoreIdx :
          ast.body[i].typ = ast.body[j].typ => out[7 + i].args[1] = out[7 + j].args[1]

C5_Witness ==
    /\ pc = "done"
    /\ exit = 0
    /\ \E i, j \in StoreIdx :
          /\ i < j
          /\ ast.body[i].name # ast.body[j].name
          /\ ast.body[i].typ = ast.body[j].typ
          /\ out[7 + i].args[1] = out[7 + j].args[1]

(* C6: parsing a syntactically complete declaration fails with             *)
(* TypeMismatch exactly when the initializer is a variable bound to a type *)
(* other than the declared one; the diagnostic names both types and the    *)
(* line of the declaration and the symbol table is left as it was; a       *)
(* literal initializer never fails and takes the declared type.            *)
C6_Step ==
    (pc = "parse_block" /\ CompleteDeclAt(pos)) =>
        LET name == tokens[pos + 1]
            typ == tokens[pos + 3].val
            e == tokens[pos + 5]
            conflict == e.typ = "VAR" /\ e.val \in DOMAIN sym /\ sym[e.val] # typ
        IN  /\ (Kind(raised') = "TypeMismatch") <=> conflict
            /\ conflict =>
                  /\ raised'.line = name.line
                  /\ raised'.msg = <<"type mismatch: cannot assign",
                                     sym[e.val], "to", typ>>
                  /\ sym' = sym
                  /\ stmts' = stmts
            /\ e.typ = "NUM" =>
                  /\ raised'.exc = "none"
                  /\ stmts'[Len(stmts')].expr.typ = typ

C6_TypeMismatch == [][C6_Step]_vars

C6_Witness ==
    /\ Kind(raised) = "TypeMismatch"
    /\ pc = "done"

(* C7: the symbol table maps each name to the declared type of the most   *)
(* recent completed declaration of that name and every parsed variable     *)
(* reference carries the type its name had then; a declaration with a      *)
(* literal initializer succeeds and (re)binds its name whatever was bound  *)
(* before; a reference to a name that no completed declaration precedes    *)
(* fails with UndeclaredVariable naming it and its line.                   *)
C7_Inv ==
    /\ DOMAIN sym = {n \in Names : DeclIdx(stmts, n) # {}}
    /\ \A n \in DOMAIN sym : sym[n] = LastType(stmts, n)
    /\ \A i \in VarRefIdx(stmts) :
          /\ DeclIdx(SubSeq(stmts, 1, i - 1), stmts[i].expr.val) # {}
          /\ stmts[i].expr.typ = LastType(SubSeq(stmts, 1, i - 1), stmts[i].expr.val)

C7_Step ==
    /\ (pc = "parse_block" /\ CompleteDeclAt(pos) /\ tokens[pos + 5].typ = "NUM") =>
          /\ raised'.exc = "none"
          /\ DOMAIN sym' = DOMAIN sym \cup {tokens[pos + 1].val}
          /\ sym'[tokens[pos + 1].val] = tokens[pos + 3].val
          /\ \A n \in DOMAIN sym : n # tokens[pos + 1].val => sym'[n] = sym[n]
    /\ \A k \in {2, 5} :
          (/\ pc = "parse_block"
           /\ IF k = 5 THEN CompleteDeclAt(pos) ELSE CompleteReturnAt(pos)
           /\ tokens[pos + k].typ = "VAR"
           /\ DeclIdx(stmts, tokens[pos + k].val) = {}) =>
             /\ Kind(raised') = "UndeclaredVariable"
             /\ raised'.line = tokens[pos + k].line
             /\ raised'.msg = <<"undeclared variable '", tokens[pos + k].val>>
             /\ sym' = sym

C7_SymbolTable == []C7_Inv /\ [][C7_Step]_vars

C7_Witness ==
    \E i, j, k \in 1..Len(stmts) :
        /\ i < j /\ j < k
        /\ stmts[i].node = "VarDecl" /\ stmts[j].node = "VarDecl"
        /\ stmts[i].name = stmts[j].name
        /\ stmts[i].typ # stmts[j].typ
        /\ stmts[k].expr.node = "Variable"
        /\ stmts[k].expr.val = stmts[j].name
        /\ stmts[k].expr.typ = stmts[j].typ
        /\ sym[stmts[j].name] = stmts[j].typ

(* C8: in a Function returned by the parser every expression has a type   *)
(* of TYPE_TOK, a declaration's initializer has the declared type and a    *)
(* returned expression has type i32; returning a variable bound to         *)
(* another type fails with ReturnTypeMismatch and yields no Function.      *)
C8_Inv ==
    ast.node = "Function" =>
        \A i \in 1..Len(ast.body) :
            /\ ast.body[i].expr.typ \in TYPE_TOK
            /\ ast.body[i].node = "VarDecl" => ast.body[i].expr.typ = ast.body[i].typ
            /\ ast.body[i].node = "Return" => ast.body[i].expr.typ = "i32"

C8_Step ==
    (/\ pc = "parse_block"
     /\ CompleteReturnAt(pos)
     /\ tokens[pos + 2].typ = "VAR"
     /\ tokens[pos + 2].val \in DOMAIN sym
     /\ sym[tokens[pos + 2].val] # "i32") =>
        /\ Kind(raised') = "ReturnTypeMismatch"
        /\ raised'.line = tokens[pos + 1].line
        /\ raised'.msg = <<"return type", sym[tokens[pos + 2].val], "expected i32">>
        /\ pc' = "done"
        /\ ast' = ast /\ ast.node = None

C8_TypedAst == []C8_Inv /\ [][C8_Step]_vars

C8_Witness ==
    /\ ast.node = "Function"
    /\ \E i, j \in 1..Len(ast.body) :
          /\ ast.body[i].node = "VarDecl"
          /\ ast.body[i].expr.node = "IntLiteral"
          /\ ast.body[i].typ # "i32"
          /\ ast.body[j].node = "Return"
          /\ ast.body[j].expr.node = "Variable"

(* C9: for a Function whose expressions are all integer literals the       *)
(* finished output is the four preamble lines, the label, the two          *)
(* prologue instructions, one line per statement in order (a store of the  *)
(* literal for a declaration, a move of the literal into eax for a         *)
(* return) and the two epilogue instructions, and that is what is written. *)
C9_Inv ==
    (ast.node = "Function" /\ VarRefIdx(ast.body) = {}
     /\ pc \in {"write_file", "compilation", "done"}) =>
        /\ Len(out) = 7 + Len(ast.body) + 2
        /\ [i \in 1..7 |-> out[i].text] =
              <<"format ELF64", "public main", "section '.text' executable", "",
                "main:", "        push rbp", "        mov rbp, rsp">>
        /\ \A i \in 1..Len(ast.body) :
              IF ast.body[i].node = "VarDecl"
              THEN /\ out[7 + i].text = "        mov DWORD [rbp-{offset}], {vardecl.expr.val}"
                   /\ out[7 + i].args[2] = ast.body[i].expr.val
              ELSE out[7 + i] = [text |-> "        mov eax, {ret.val}",
                                 args |-> <<ast.body[i].expr.val>>]
        /\ out[Len(out) - 1].text = "        pop rbp"
        /\ out[Len(out)].text = "        ret\n"
        /\ pc # "write_file" => file = out
        /\ raised.exc = "none"

C9_Witness ==
    /\ pc = "done"
    /\ exit = 0
    /\ file = out
    /\ \E i, j \in 1..Len(ast.body) :
          ast.body[i].node = "VarDecl" /\ ast.body[j].node = "Return"

(* C10: every emitted store writes as many bytes as the width of the       *)
(* declared type, and the bytes written, [rbp-disp, rbp-disp+size), lie    *)
(* below the frame pointer.                                                *)
C10_StoreFitsSlot ==
    \A i \in StoreIdx :
        /\ StoreBytes(out[7 + i]) = TypeWidth(ast.body[i].typ)
        /\ StoreBytes(out[7 + i]) - out[7 + i].args[1] <= 0

====
